---- MODULE Spec2Model ----
(***************************************************************************)
(* A state-machine model of waterrocketpy's three-phase flight simulator   *)
(* (waterrocketpy/core/simulation.py, waterrocketpy/core/physics_engine.py).*)
(*                                                                         *)
(* Numbers.  The program computes in floating point; the model computes in *)
(* integers on a coarse grid of units: time in solver ticks, volume in     *)
(* bottle-grid units (water_fraction is the rational num/den), pressure in *)
(* tenths of a bar (the atmosphere is 10, the liquid-gas pressure of line  *)
(* 84 is 100), temperature in kelvin.  A division rounds to the nearest    *)
(* integer, as a floating-point division rounds to the nearest             *)
(* representable number.  A value that can be non-finite (nan, inf) is the *)
(* record [finite, value].                                                 *)
(*                                                                         *)
(* The solver.  scipy's solve_ivp is modelled by its contract: the solver  *)
(* evaluates the derivative function once when it is constructed and once  *)
(* at the end of every step, advances by at most max_step, stops with      *)
(* status 1 at the root of a terminal event, with status 0 at the end of   *)
(* the span and with status -1 (no exception) when a step fails because    *)
(* the derivative is not finite.                                           *)
(***************************************************************************)
EXTENDS Integers, Sequences, FiniteSets, TLC

\* ---------------------------------------------------------------- bounds
MaxTime == 4        \* largest max_time a caller passes, in ticks
MaxCalls == 2       \* simulate invocations made on the one simulator instance
MaxVolume == 4      \* bottle volume, in grid units; water_fraction is k/MaxVolume
MaxPressure == 25   \* largest pressure passed to an engine operation directly
MaxCoefficient == 2 \* largest coefficient or area passed to one
MaxSpeed == 12      \* largest speed passed to one
MaxForce == 3       \* largest force passed to one
MaxMass == 2        \* largest mass passed to one

\* ------------------------------------------------------------- constants
\* waterrocketpy/core/constants.py, in the model's units
WATER_DENSITY == 10
ATMOSPHERIC_PRESSURE == 10
INITIAL_TEMPERATURE == 300
GRAVITY == 1
AIR_DENSITY_SL == 1
DEFAULT_MAX_TIME == 3
DEFAULT_TIME_STEP == 1
DEFAULT_SOLVER == "RK45"
\* ADIABATIC_INDEX_AIR = 1.4 = GammaNum / GammaDen
GammaNum == 7
GammaDen == 5
\* simulation.py line 84: pressure = 10e5 (10 bar)
LiquidGasPressure == 100
\* physics_engine.py line 103: max(air_volume, 1e-10); the smallest positive
\* volume of the grid
VolumeEpsilon == 1

\* --------------------------------------------------------------- numbers
\* a float that may be nan or inf
Finite(v) == [finite |-> TRUE, value |-> v]

NonFinite == [finite |-> FALSE, value |-> 0]

Abs(x) == IF x < 0 THEN -x ELSE x

\* np.sign
Sign(x) == IF x > 0 THEN 1 ELSE IF x < 0 THEN -1 ELSE 0

Max2(a, b) == IF a >= b THEN a ELSE b

Min2(a, b) == IF a <= b THEN a ELSE b

\* a / b rounded to the nearest integer (b # 0), sign-symmetric
Div(a, b) == Sign(a) * Sign(b) * ((2 * Abs(a) + Abs(b)) \div (2 * Abs(b)))

RECURSIVE Pow(_, _)
Pow(b, e) == IF e = 0 THEN 1 ELSE b * Pow(b, e - 1)

\* the integer k-th root of x >= 0: the largest r with r^k <= x
IRoot(k, x) == CHOOSE r \in 0..(x + 1) : Pow(r, k) <= x /\ Pow(r + 1, k) > x

\* np.sqrt
Sqrt(x) == IRoot(2, x)

RECURSIVE SeqMax(_)
SeqMax(s) == IF Len(s) = 1 THEN s[1] ELSE Max2(s[1], SeqMax(Tail(s)))

RECURSIVE Concat(_)
\* np.concatenate of a list of arrays
Concat(ss) == IF ss = <<>> THEN <<>> ELSE Head(ss) \o Concat(Tail(ss))

\* np.zeros_like / np.full_like
FullLike(s, v) == [i \in 1..Len(s) |-> v]

\* ---------------------------------------------------------- PhysicsEngine
\* AIR_DENSITY_SL is AIR_DENSITY_SL / AirDensityDen of the water-density unit
AirDensityDen == 100
\* resolution of the fractional powers: x^(p/q) is computed to 1/RootScale
RootScale == 4

\* RootScale * (a / b)^(num / den) for 0 <= a, 0 < b, rounded up: the least r
\* with (r / RootScale)^den >= (a / b)^num
RatioPowReaches(r, a, b, num, den) ==
    Pow(r, den) * Pow(b, num) >= Pow(a, num) * Pow(RootScale, den)

RatioPow(a, b, num, den) ==
    CHOOSE r \in 0..(RootScale * (a + 1)) :
        /\ RatioPowReaches(r, a, b, num, den)
        /\ (r = 0 \/ ~RatioPowReaches(r - 1, a, b, num, den))

\* PhysicsEngine(gravity=GRAVITY, air_density=AIR_DENSITY_SL); "kind" tells
\* the class of the engine object: "default" is physics_engine.PhysicsEngine,
\* "extended" a caller-supplied engine that also provides
\* calculate_air_mass_from_conditions, calculate_air_thrust, air_gas_constant.
PhysicsEngine(kind) ==
    [kind |-> kind, gravity |-> GRAVITY, air_density |-> AIR_DENSITY_SL]

HasAirOperations(engine) == engine.kind = "extended"

\* a thrust from the magnitude of the pressure difference, not clamped at 0
calculate_thrust_unclamped(pressure, nozzle_area, discharge_coefficient) ==
    LET pressure_diff == Abs(pressure - ATMOSPHERIC_PRESSURE)
        exit_velocity == discharge_coefficient
                           * Sqrt(Div(2 * pressure_diff, WATER_DENSITY))
        mass_flow_rate == WATER_DENSITY * nozzle_area * exit_velocity
        thrust_force == mass_flow_rate * exit_velocity
    IN  [thrust |-> thrust_force, exit_velocity |-> exit_velocity,
         mass_flow_rate |-> mass_flow_rate]

calculate_thrust(pressure, nozzle_area, discharge_coefficient) ==
    LET pressure_diff == Max2(pressure - ATMOSPHERIC_PRESSURE, 0)
        exit_velocity == discharge_coefficient
                           * Sqrt(Div(2 * pressure_diff, WATER_DENSITY))
        mass_flow_rate == WATER_DENSITY * nozzle_area * exit_velocity
        thrust_force == mass_flow_rate * exit_velocity
    IN  [thrust |-> thrust_force, exit_velocity |-> exit_velocity,
         mass_flow_rate |-> mass_flow_rate]

\* a drag without np.sign(velocity): never negative
calculate_drag_unsigned(engine, velocity, drag_coefficient, cross_sectional_area) ==
    Div(engine.air_density * velocity * velocity * drag_coefficient
          * cross_sectional_area,
        2 * AirDensityDen)

calculate_drag(engine, velocity, drag_coefficient, cross_sectional_area) ==
    Div(engine.air_density * velocity * velocity * drag_coefficient
          * cross_sectional_area * Sign(velocity),
        2 * AirDensityDen)

calculate_pressure_adiabatic(initial_pressure, initial_volume, current_volume) ==
    IF current_volume <= 0
    THEN initial_pressure
    ELSE Div(initial_pressure
               * RatioPow(initial_volume, current_volume, GammaNum, GammaDen),
             RootScale)

\* exponent (gamma - 1) / gamma = (GammaNum - GammaDen) / GammaNum
calculate_temperature_adiabatic(initial_temperature, initial_pressure, current_pressure) ==
    Div(initial_temperature
          * RatioPow(current_pressure, initial_pressure, GammaNum - GammaDen, GammaNum),
        RootScale)

calculate_air_volume(bottle_volume, water_mass) ==
    LET water_volume == Div(water_mass, WATER_DENSITY)
        air_volume == bottle_volume - water_volume
    IN  Max2(air_volume, VolumeEpsilon)

\* net_force / mass - gravity; a division by a zero mass is not finite
calculate_net_force(engine, thrust, drag, mass) ==
    LET net_force == thrust - drag
    IN  [net_force |-> net_force,
         acceleration |-> IF mass = 0 THEN NonFinite
                          ELSE Finite(Div(net_force, mass) - engine.gravity)]

\* --- the air-phase operations of the extended engine (ideal gas, P V = m R T)
\* air_gas_constant is the rational 1 / GasConstantInv
GasConstantInv == 100

\* m R T / V
IdealGasPressure(air_mass, temperature, air_volume) ==
    Div(air_mass * temperature, GasConstantInv * air_volume)

\* P V / (R T)
calculate_air_mass_from_conditions(pressure, temperature, volume) ==
    Div(pressure * volume * GasConstantInv, temperature)

calculate_air_thrust(pressure, temperature, nozzle_area, discharge_coefficient) ==
    LET pressure_diff == Max2(pressure - ATMOSPHERIC_PRESSURE, 0)
        density == Max2(Div(pressure * GasConstantInv, temperature), 1)
        exit_velocity == discharge_coefficient
                           * Sqrt(Div(2 * pressure_diff, density))
        mass_flow_rate == density * nozzle_area * exit_velocity
        thrust_force == mass_flow_rate * exit_velocity
    IN  [thrust |-> thrust_force, exit_velocity |-> exit_velocity,
         mass_flow_rate |-> mass_flow_rate]

\* ------------------------------------------------- WaterRocketSimulator
\* a rational-valued parameter (water_fraction) is the pair <<num, den>>
TimesFraction(x, f) == Div(x * f[1], f[2])

TimesOneMinusFraction(x, f) == Div(x * (f[2] - f[1]), f[2])

\* a sample into which the number of simulate calls made so far leaks
DerivedSampleOfCallCount(by, t, pressure, temperature, thrust, drag) ==
    [by |-> by, time |-> t, pressure |-> pressure + by, temperature |-> temperature,
     thrust |-> thrust, drag |-> drag]

\* one DerivedSample, the arguments of _store_derived_quantities; "by" is the
\* simulate invocation that recorded it (not program state)
DerivedSample(by, t, pressure, temperature, thrust, drag) ==
    [by |-> by, time |-> t, pressure |-> pressure, temperature |-> temperature,
     thrust |-> thrust, drag |-> drag]

EmptyDerivedData ==
    [by |-> <<>>, time |-> <<>>, pressure |-> <<>>, temperature |-> <<>>,
     thrust |-> <<>>, drag |-> <<>>]

\* a store that keeps the samples of the powered evaluations only
StorePoweredQuantities(data, smp) ==
    IF smp.thrust = 0 THEN data
    ELSE [by |-> Append(data.by, smp.by),
          time |-> Append(data.time, smp.time),
          pressure |-> Append(data.pressure, smp.pressure),
          temperature |-> Append(data.temperature, smp.temperature),
          thrust |-> Append(data.thrust, smp.thrust),
          drag |-> Append(data.drag, smp.drag)]

\* _store_derived_quantities: one append to each of the five lists
StoreDerivedQuantities(data, smp) ==
    [by |-> Append(data.by, smp.by),
     time |-> Append(data.time, smp.time),
     pressure |-> Append(data.pressure, smp.pressure),
     temperature |-> Append(data.temperature, smp.temperature),
     thrust |-> Append(data.thrust, smp.thrust),
     drag |-> Append(data.drag, smp.drag)]

\* a liquid gas that boils off while the water is expelled
LiquidGasBoilOffRate(water_mass, liquid_gas_mass) ==
    IF liquid_gas_mass > 0 THEN -liquid_gas_mass ELSE 0

\* lines 86, 88: dm_dt_liquid_gas = 0 in both pressure regimes
LiquidGasRate(water_mass, liquid_gas_mass) == 0

\* The three derivative functions return the derivative array and the sample
\* they store: [dy |-> <<...>>, finite |-> whether every derivative is finite,
\* sample |-> DerivedSample].
rocket_ode_water_phase(engine, by, t, state, params) ==
    LET velocity == state[2]
        water_mass == state[3]
        liquid_gas_mass == state[4]
        air_volume == calculate_air_volume(params["V_bottle"], water_mass)
        initial_air_volume ==
            TimesOneMinusFraction(params["V_bottle"], params["water_fraction"])
        adiabatic_pressure ==
            calculate_pressure_adiabatic(params["P0"], initial_air_volume, air_volume)
        pressure ==
            IF water_mass > 0 /\ liquid_gas_mass > 0 THEN LiquidGasPressure
            ELSE IF water_mass > 0 THEN adiabatic_pressure
            ELSE ATMOSPHERIC_PRESSURE
        temperature ==
            IF water_mass > 0 /\ liquid_gas_mass > 0 THEN INITIAL_TEMPERATURE
            ELSE IF water_mass > 0
                 THEN calculate_temperature_adiabatic(
                          INITIAL_TEMPERATURE, params["P0"], pressure)
            ELSE INITIAL_TEMPERATURE
        dm_dt_liquid_gas == LiquidGasRate(water_mass, liquid_gas_mass)
        th == calculate_thrust(pressure, params["A_nozzle"], params["C_d"])
        thrust == IF water_mass > 0 THEN th.thrust ELSE 0
        dm_dt_water == IF water_mass > 0 THEN -th.mass_flow_rate ELSE 0
        drag == calculate_drag(engine, velocity, params["C_drag"], params["A_rocket"])
        total_mass == params["m_empty"] + water_mass
        acceleration == calculate_net_force(engine, thrust, drag, total_mass).acceleration
    IN  [dy |-> <<velocity, acceleration.value, dm_dt_water, dm_dt_liquid_gas>>,
         finite |-> acceleration.finite,
         sample |-> DerivedSample(by, t, pressure, temperature, thrust, drag)]

rocket_ode_air_phase(engine, by, t, state, params) ==
    LET velocity == state[2]
        air_mass == state[3]
        temperature == state[4]
        air_volume == params["V_bottle"]
        pressure == Max2(IdealGasPressure(air_mass, temperature, air_volume),
                         ATMOSPHERIC_PRESSURE)
        th == calculate_air_thrust(pressure, temperature,
                                   params["A_nozzle"], params["C_d"])
        expelling == pressure > ATMOSPHERIC_PRESSURE
        thrust == IF expelling THEN th.thrust ELSE 0
        dm_dt_air == IF expelling THEN -th.mass_flow_rate ELSE 0
        \* dV/dt = dm/dt * R * T / P
        dV_dt == Div(dm_dt_air * temperature, GasConstantInv * pressure)
        \* dT/dt = -T * (gamma - 1) / V * dV/dt
        dT_dt == IF expelling
                 THEN Div(-temperature * (GammaNum - GammaDen) * dV_dt,
                          GammaDen * air_volume)
                 ELSE 0
        drag == calculate_drag(engine, velocity, params["C_drag"], params["A_rocket"])
        total_mass == params["m_empty"] + air_mass
        acceleration == calculate_net_force(engine, thrust, drag, total_mass).acceleration
    IN  IF air_mass <= 0
        THEN [dy |-> <<velocity, -engine.gravity, 0, 0>>,
              finite |-> TRUE,
              sample |-> DerivedSample(by, t, ATMOSPHERIC_PRESSURE, temperature, 0, 0)]
        ELSE [dy |-> <<velocity, acceleration.value, dm_dt_air, dT_dt>>,
              finite |-> acceleration.finite,
              sample |-> DerivedSample(by, t, pressure, temperature, thrust, drag)]

rocket_ode_coasting_phase(engine, by, t, state, params) ==
    LET velocity == state[2]
        drag == calculate_drag(engine, velocity, params["C_drag"], params["A_rocket"])
        total_mass == params["m_empty"]
        acceleration == calculate_net_force(engine, 0, drag, total_mass).acceleration
    IN  [dy |-> <<velocity, acceleration.value>>,
         finite |-> acceleration.finite,
         sample |-> DerivedSample(by, t, ATMOSPHERIC_PRESSURE, INITIAL_TEMPERATURE,
                                  0, drag)]

water_depletion_event(state, params) == state[3]

\* an event function computed from the pressure clamped at the atmosphere
air_depletion_event_clamped(state, params) ==
    IF Len(state) < 4 THEN 1
    ELSE IF state[3] <= 0 THEN 0
    ELSE Max2(IdealGasPressure(state[3], state[4], params["V_bottle"]),
              ATMOSPHERIC_PRESSURE) - ATMOSPHERIC_PRESSURE

air_depletion_event(state, params) ==
    IF Len(state) < 4 THEN 1
    ELSE IF state[3] <= 0 THEN 0
    ELSE IdealGasPressure(state[3], state[4], params["V_bottle"])
           - ATMOSPHERIC_PRESSURE

\* the derivative function and the terminal event (direction -1) of a phase
OdeFunction(phase, engine, by, t, state, params) ==
    CASE phase = "water" -> rocket_ode_water_phase(engine, by, t, state, params)
      [] phase = "air" -> rocket_ode_air_phase(engine, by, t, state, params)
      [] OTHER -> rocket_ode_coasting_phase(engine, by, t, state, params)

HasEvent(phase) == phase \in {"water", "air"}

EventFunction(phase, state, params) ==
    CASE phase = "water" -> water_depletion_event(state, params)
      [] phase = "air" -> air_depletion_event(state, params)
      [] OTHER -> 1

\* ------------------------------------------------------------ solve_ivp
\* y + h * dy, the state the solver's interpolant gives h after a step began
Advance(y, dy, h) == [i \in 1..Len(y) |-> y[i] + h * dy[i]]

\* solve_ivp(fun, (t0, t_bound), y0, events=..., max_step=...): the solver
\* object after construction; ts, ys start as [t0], [y0]; nfev is the
\* solver's count of the evaluations of fun it made
SolveIvpInit(phase, t0, t_bound, y0, max_step) ==
    [phase |-> phase, t_bound |-> t_bound, max_step |-> max_step,
     t |-> t0, y |-> y0, ts |-> <<t0>>, ys |-> <<y0>>,
     status |-> "running", t_events |-> <<>>, nfev |-> 1]

\* the sample the solver's constructor records: it evaluates fun(t0, y0)
InitSample(sol, engine, by, params) ==
    OdeFunction(sol.phase, engine, by, sol.t, sol.y, params).sample

\* One round of solve_ivp's loop.  Returns the solver object after it and
\* the samples the round's derivative evaluations stored.
SolveIvpStep(sol, engine, by, params) ==
    LET f_now == OdeFunction(sol.phase, engine, by, sol.t, sol.y, params)
        f == f_now.dy
        atBound == sol.t = sol.t_bound
        h == Min2(sol.max_step, sol.t_bound - sol.t)
        t_new == sol.t + h
        y_new == Advance(sol.y, f, h)
        f_new == OdeFunction(sol.phase, engine, by, t_new, y_new, params)
        g == EventFunction(sol.phase, sol.y, params)
        g_new == EventFunction(sol.phase, y_new, params)
        \* find_active_events with direction -1
        active == HasEvent(sol.phase) /\ g >= 0 /\ g_new <= 0
        \* the root of the event on [t, t_new], to the tick
        te == CHOOSE x \in sol.t..t_new :
                  /\ EventFunction(sol.phase, Advance(sol.y, f, x - sol.t), params) <= 0
                  /\ \A z \in sol.t..(x - 1) :
                         EventFunction(sol.phase, Advance(sol.y, f, z - sol.t), params) > 0
        y_te == Advance(sol.y, f, te - sol.t)
    IN  IF atBound
        THEN \* OdeSolver.step: t == t_bound, finished without a derivative
             \* call; solve_ivp then looks for events between the state and
             \* itself, and an event function that is 0 there is active
             [sol |-> [sol EXCEPT !.status = IF HasEvent(sol.phase) /\ g = 0
                                             THEN "event" ELSE "finished",
                                  !.ts = Append(@, sol.t),
                                  !.ys = Append(@, sol.y),
                                  !.t_events = IF HasEvent(sol.phase) /\ g = 0
                                               THEN Append(@, sol.t) ELSE @],
              samples |-> <<>>]
        ELSE IF ~f_now.finite
        THEN \* the step fails: status -1, nothing appended, no exception
             [sol |-> [sol EXCEPT !.status = "failed"], samples |-> <<>>]
        ELSE IF active
        THEN [sol |-> [sol EXCEPT !.status = "event", !.t = te, !.y = y_te,
                                  !.ts = Append(@, te), !.ys = Append(@, y_te),
                                  !.t_events = Append(@, te),
                                  !.nfev = @ + 1],
              samples |-> <<f_new.sample>>]
        ELSE [sol |-> [sol EXCEPT !.status = IF t_new = sol.t_bound
                                             THEN "finished" ELSE "running",
                                  !.t = t_new, !.y = y_new,
                                  !.ts = Append(@, t_new), !.ys = Append(@, y_new),
                                  !.nfev = @ + 1],
              samples |-> <<f_new.sample>>]

RECURSIVE StoreAll(_, _)
StoreAll(data, samples) ==
    IF samples = <<>> THEN data
    ELSE StoreAll(StoreDerivedQuantities(data, Head(samples)), Tail(samples))

\* solution.y[i, :]
Row(ys, i) == [k \in 1..Len(ys) |-> ys[k][i]]

\* --------------------------------------------------- post-processing
\* the position of index i when xs is sorted by a stable sort (np.argsort,
\* kind="mergesort", as interp1d sorts its x)
SortRank(xs, i) ==
    1 + Cardinality({j \in 1..Len(xs) : xs[j] < xs[i] \/ (xs[j] = xs[i] /\ j < i)})

SortedBy(xs, ys) ==
    [r \in 1..Len(xs) |-> ys[CHOOSE i \in 1..Len(xs) : SortRank(xs, i) = r]]

\* interp1d(xs, ys, kind='linear', bounds_error=False,
\*          fill_value='extrapolate')(x_new)
Interp1d(xs, ys, x_new) ==
    LET n == Len(xs)
        sx == SortedBy(xs, xs)
        sy == SortedBy(xs, ys)
        \* np.searchsorted(sx, x_new), clipped to [1, n - 1]
        idx == Cardinality({j \in 1..n : sx[j] < x_new})
        hi == Min2(Max2(idx, 1), n - 1) + 1
        lo == hi - 1
    IN  IF n < 2 THEN NonFinite
        ELSE IF sx[hi] = sx[lo] THEN NonFinite
        ELSE Finite(Div((sy[hi] - sy[lo]) * (x_new - sx[lo]), sx[hi] - sx[lo])
                      + sy[lo])

InterpolateOnto(xs, ys, time) == [i \in 1..Len(time) |-> Interp1d(xs, ys, time[i])]

\* np.gradient(f, x) for Len(f) >= 2: one-sided differences at the two ends,
\* the second-order formula for uneven spacing inside
Gradient(f, x) ==
    LET n == Len(f)
        OneSided(i, j) ==
            IF x[j] = x[i] THEN NonFinite
            ELSE Finite(Div(f[j] - f[i], x[j] - x[i]))
        Inner(i) ==
            LET hs == x[i] - x[i - 1]
                hd == x[i + 1] - x[i]
            IN  IF hs = 0 \/ hd = 0 \/ hs + hd = 0 THEN NonFinite
                ELSE Finite(Div(hs * hs * f[i + 1] + (hd * hd - hs * hs) * f[i]
                                  - hd * hd * f[i - 1],
                                hs * hd * (hd + hs)))
    IN  [i \in 1..n |-> IF i = 1 THEN OneSided(1, 2)
                        ELSE IF i = n THEN OneSided(n - 1, n)
                        ELSE Inner(i)]

\* ------------------------------------------------------------- the state
VARIABLES
    engine,        \* self.physics_engine
    derived_data,  \* self.derived_data, the instance's derived-sample buffer
    frame,         \* per caller: the locals of its simulate invocation
    ncalls,        \* simulate invocations started so far
    earlier,       \* what simulate did on the instance the caller had before
    call           \* the engine operation the caller applied itself, if any

vars == <<engine, derived_data, frame, ncalls, earlier, call>>

\* the threads that may call simulate on the instance
Callers == {1, 2}

\* dict.get(key, default)
Get(d, key, default) == IF key \in DOMAIN d THEN d[key] ELSE default

\* --- the inputs callers pass
RocketParams(k, P0, m_empty) ==
    [V_bottle |-> MaxVolume, water_fraction |-> <<k, MaxVolume>>, P0 |-> P0,
     A_nozzle |-> 1, C_d |-> 1, m_empty |-> m_empty, C_drag |-> 1,
     A_rocket |-> 1]

WithLiquidGas(p, m) == p @@ ("liquid_gas_mass" :> m)

PlainRocketInputs ==
    {RocketParams(k, P0, m) :
        k \in 0..(MaxVolume - 1),
        P0 \in {ATMOSPHERIC_PRESSURE, 2 * ATMOSPHERIC_PRESSURE, 10 * ATMOSPHERIC_PRESSURE},
        m \in {0, WATER_DENSITY}}

\* a bottle filled with water to the top (water_fraction = 1)
FullBottleInputs ==
    {RocketParams(MaxVolume, 2 * ATMOSPHERIC_PRESSURE, WATER_DENSITY),
     WithLiquidGas(RocketParams(MaxVolume, 2 * ATMOSPHERIC_PRESSURE, WATER_DENSITY), 5)}

\* a bottle twice as large with liquid gas: its water takes more than one
\* solver step to leave
LargeBottleInputs ==
    {WithLiquidGas([RocketParams(MaxVolume - 1, 2 * ATMOSPHERIC_PRESSURE, WATER_DENSITY)
                       EXCEPT !.V_bottle = 2 * MaxVolume], 5)}

RocketInputs ==
    PlainRocketInputs
      \cup LargeBottleInputs
      \cup {WithLiquidGas(p, m) :
               p \in {q \in PlainRocketInputs : q["P0"] = 2 * ATMOSPHERIC_PRESSURE},
               m \in {0, 5}}
      \cup FullBottleInputs

\* sim_params: None, or a dict with max_time and possibly time_step
NoSettings == [is_none |-> TRUE, settings |-> <<>>]

Settings(d) == [is_none |-> FALSE, settings |-> d]

SimInputs ==
    {NoSettings}
      \cup {Settings([max_time |-> m]) : m \in 1..MaxTime}
      \cup {Settings([max_time |-> MaxTime, time_step |-> 2])}

\* --- the record simulate returns
FlightData(time, altitude, velocity, acceleration, water_mass, liquid_gas_mass, air_mass, pressure, temperature, thrust, drag, max_altitude, max_velocity, flight_time, water_depletion_time, air_depletion_time) ==
    [time |-> time, altitude |-> altitude, velocity |-> velocity,
     acceleration |-> acceleration, water_mass |-> water_mass,
     liquid_gas_mass |-> liquid_gas_mass, air_mass |-> air_mass,
     pressure |-> pressure, temperature |-> temperature, thrust |-> thrust,
     drag |-> drag, max_altitude |-> max_altitude, max_velocity |-> max_velocity,
     flight_time |-> flight_time, water_depletion_time |-> water_depletion_time,
     air_depletion_time |-> air_depletion_time]

NoFlightData ==
    FlightData(<<>>, <<>>, <<>>, <<>>, <<>>, <<>>, <<>>, <<>>, <<>>, <<>>, <<>>,
               0, 0, 0, 0, 0)

\* --- the locals of one simulate invocation.  pc is where the invocation
\* stands; rocket_params and sim_params are the caller's two mappings, which
\* simulate holds by reference.  "passed" (the two mappings as they were when
\* the call was made), "warnings" (what the call printed), "entered" (the
\* phases whose solve_ivp call was made), "statuses" (the status each
\* solve_ivp call returned), "nfevs" (the nfev of each) and "sources" (who recorded the samples handed to
\* interp1d) are a record of the run, not program state.
IdleFrame ==
    [pc |-> "idle", by |-> 0, rocket_params |-> <<>>, sim_params |-> NoSettings,
     passed |-> <<>>, warnings |-> {}, max_time |-> 0,
     time_step |-> 0, sol |-> SolveIvpInit("none", 0, 0, <<>>, 0),
     all_times |-> <<>>, all_altitudes |-> <<>>, all_velocities |-> <<>>,
     all_water_masses |-> <<>>, all_liquid_gas_masses |-> <<>>,
     all_air_masses |-> <<>>,
     water_depletion_time |-> 0, air_depletion_time |-> 0,
     flight_data |-> NoFlightData, error |-> "none",
     entered |-> <<>>, statuses |-> <<>>, nfevs |-> <<>>, sources |-> {}]

\* no instance was used before this one
NoEarlier == [present |-> FALSE]

\* the caller applied no engine operation itself
NoCall == [op |-> "none"]

Init ==
    /\ engine \in {PhysicsEngine("default"), PhysicsEngine("extended")}
    /\ derived_data = EmptyDerivedData
    /\ frame = [c \in Callers |-> IdleFrame]
    /\ ncalls = 0
    /\ earlier = NoEarlier
    /\ call = NoCall

\* ------------------------------------------------------------- simulate
\* a simulate that keeps the samples already in the buffer
KeepDerivedData(data) == data

\* lines 279-285: self.derived_data = {'time': [], ...}
ResetDerivedData(data) == EmptyDerivedData

\* an air phase whose span starts again at the launch
AirTimeSpanFromLaunch(water_depletion_time, max_time) == <<0, max_time>>

\* line 379: the air phase integrates over (water_depletion_time, max_time)
AirTimeSpan(water_depletion_time, max_time) == <<water_depletion_time, max_time>>

\* line 412: the coasting phase integrates over (air_depletion_time, max_time)
CoastingTimeSpan(air_depletion_time, max_time) == <<air_depletion_time, max_time>>

\* lines 351-362: the pressure and the temperature at the end of the water phase
PressureAtTransition(rocket_params) ==
    calculate_pressure_adiabatic(rocket_params["P0"],
        TimesOneMinusFraction(rocket_params["V_bottle"], rocket_params["water_fraction"]),
        rocket_params["V_bottle"])

TemperatureAtTransition(rocket_params) ==
    calculate_temperature_adiabatic(INITIAL_TEMPERATURE, rocket_params["P0"],
                                    PressureAtTransition(rocket_params))

\* an air phase that starts at rest on the ground
InitialStateAirAtRest(final_state_water, rocket_params) ==
    <<0, 0,
      calculate_air_mass_from_conditions(PressureAtTransition(rocket_params),
                                         TemperatureAtTransition(rocket_params),
                                         rocket_params["V_bottle"]),
      TemperatureAtTransition(rocket_params)>>

\* an air phase whose air mass is that of the pressure the water phase ended
\* with: the liquid-gas pressure when liquid gas is left
InitialStateAirOfWaterState(final_state_water, rocket_params) ==
    LET pressure == IF final_state_water[4] > 0 THEN LiquidGasPressure
                    ELSE PressureAtTransition(rocket_params)
    IN  <<final_state_water[1], final_state_water[2],
          calculate_air_mass_from_conditions(pressure,
                                             TemperatureAtTransition(rocket_params),
                                             rocket_params["V_bottle"]),
          TemperatureAtTransition(rocket_params)>>

\* lines 350-371: the initial state of the air phase
InitialStateAir(final_state_water, rocket_params) ==
    LET air_volume_at_transition == rocket_params["V_bottle"]
        pressure_at_transition == PressureAtTransition(rocket_params)
        temperature_at_transition == TemperatureAtTransition(rocket_params)
        air_mass_at_transition ==
            calculate_air_mass_from_conditions(pressure_at_transition,
                                               temperature_at_transition,
                                               air_volume_at_transition)
    IN  <<final_state_water[1], final_state_water[2], air_mass_at_transition,
          temperature_at_transition>>

\* --- ParameterValidator.validate_rocket_parameters: the warnings for a
\* parameter record (a water_fraction outside (0, 1), a P0 below the
\* atmosphere, a non-positive mass); it returns them and rejects nothing
validate_rocket_parameters(rocket_params) ==
    {w \in {"water_fraction", "P0", "m_empty"} :
        \/ /\ w = "water_fraction"
           /\ \/ rocket_params["water_fraction"][1] <= 0
              \/ rocket_params["water_fraction"][1] >= rocket_params["water_fraction"][2]
        \/ w = "P0" /\ rocket_params["P0"] < ATMOSPHERIC_PRESSURE
        \/ w = "m_empty" /\ rocket_params["m_empty"] <= 0}

\* a mapping after d.setdefault(key, default)
AfterSetdefault(d, key, default) ==
    IF key \in DOMAIN d THEN d ELSE d @@ (key :> default)

\* a mapping after d.get(key, default): as it was
AfterGet(d, key, default) == d

\* a liquid_gas_mass that defaults to a charge of liquid gas
LiquidGasMassInitialCharged(rocket_params) == Get(rocket_params, "liquid_gas_mass", 5)

\* line 302: rocket_params.get('liquid_gas_mass', 0.0)
LiquidGasMassInitial(rocket_params) == Get(rocket_params, "liquid_gas_mass", 0)

\* lines 253-321: simulate is called on an instance whose buffer is "data":
\* the validation, the defaults, the buffer reset, the initial state of the
\* water phase and the construction of its solver
StartSimulate(c, data, rocket_params, sim_params) ==
    /\ frame[c].pc \in {"idle", "returned", "raised"}
    /\ call = NoCall
    /\ ncalls < MaxCalls
    /\ LET warnings == validate_rocket_parameters(rocket_params)
           \* lines 271-272: a None is replaced by a new, local dict
           settings == IF sim_params.is_none THEN <<>> ELSE sim_params.settings
           max_time == Get(settings, "max_time", DEFAULT_MAX_TIME)
           time_step == Get(settings, "time_step", DEFAULT_TIME_STEP)
           solver == Get(settings, "solver", DEFAULT_SOLVER)
           settings_read ==
               AfterGet(AfterGet(AfterGet(settings, "max_time", DEFAULT_MAX_TIME),
                                 "time_step", DEFAULT_TIME_STEP),
                        "solver", DEFAULT_SOLVER)
           by == ncalls + 1
           water_volume_initial ==
               TimesFraction(rocket_params["V_bottle"], rocket_params["water_fraction"])
           water_mass_initial == WATER_DENSITY * water_volume_initial
           liquid_gas_mass_initial == LiquidGasMassInitial(rocket_params)
           rocket_params_read == AfterGet(rocket_params, "liquid_gas_mass", 0)
           initial_state_water == <<0, 0, water_mass_initial, liquid_gas_mass_initial>>
           sol == SolveIvpInit("water", 0, max_time, initial_state_water, time_step)
       IN  /\ derived_data' =
                 StoreDerivedQuantities(ResetDerivedData(data),
                                        InitSample(sol, engine, by, rocket_params_read))
           /\ frame' = [frame EXCEPT ![c] =
                 [IdleFrame EXCEPT !.pc = "water", !.by = by,
                                   !.rocket_params = rocket_params_read,
                                   !.sim_params = IF sim_params.is_none THEN sim_params
                                                  ELSE Settings(settings_read),
                                   !.passed = [rocket_params |-> rocket_params,
                                               sim_params |-> sim_params],
                                   !.warnings = warnings,
                                   !.max_time = max_time, !.time_step = time_step,
                                   !.sol = sol, !.entered = <<"water">>]]
    /\ ncalls' = ncalls + 1
    /\ UNCHANGED <<engine, call>>

\* simulate is called on the instance the caller holds; the caller keeps no
\* outcome of the instance it had before
SimulateWith(c, rocket_params, sim_params) ==
    /\ StartSimulate(c, derived_data, rocket_params, sim_params)
    /\ earlier' = NoEarlier

Simulate(c) ==
    \E rocket_params \in RocketInputs, sim_params \in SimInputs :
        SimulateWith(c, rocket_params, sim_params)

\* what a finished simulate call did: its inputs and what it gave the caller
Outcome(f) ==
    [present |-> TRUE, passed |-> f.passed, pc |-> f.pc, error |-> f.error,
     entered |-> f.entered, warnings |-> f.warnings, flight_data |-> f.flight_data]

\* a mapping without one of its keys
WithoutKey(d, key) == [k \in DOMAIN d \ {key} |-> d[k]]

\* a parameter record, and the same record less a liquid_gas_mass of 0
SameOrDefaulted(rocket_params) ==
    {rocket_params}
      \cup IF Get(rocket_params, "liquid_gas_mass", 1) = 0
           THEN {WithoutKey(rocket_params, "liquid_gas_mass")}
           ELSE {}

\* the caller constructs another WaterRocketSimulator (lines 44-55: a buffer
\* of its own, an engine of the same class) and calls simulate on it with the
\* inputs of the call it made before
SimulateOnFreshInstance(c) ==
    /\ frame[c].pc \in {"returned", "raised"}
    /\ ~earlier.present
    /\ earlier' = Outcome(frame[c])
    /\ \E rocket_params \in SameOrDefaulted(frame[c].passed.rocket_params) :
           StartSimulate(c, EmptyDerivedData, rocket_params, frame[c].passed.sim_params)

\* one round of the loop of the solve_ivp call in progress (lines 311, 377, 410)
SolverStep(c) ==
    /\ frame[c].pc \in {"water", "air", "coasting"}
    /\ frame[c].sol.status = "running"
    /\ LET r == SolveIvpStep(frame[c].sol, engine, frame[c].by, frame[c].rocket_params)
       IN  /\ frame' = [frame EXCEPT ![c].sol = r.sol]
           /\ derived_data' = StoreAll(derived_data, r.samples)
    /\ UNCHANGED <<engine, ncalls, earlier, call>>

\* lines 335, 393-394, 425-427: the mass channels a segment gets
WaterSegmentAirMasses(ts, initial_air_mass) == FullLike(ts, initial_air_mass)

\* an array of the air phase that lacks the sample of the phase's first time
AirSegmentZerosShort(ts) == FullLike(Tail(ts), 0)

AirSegmentZeros(ts) == FullLike(ts, 0)

\* a coasting segment whose mass channels keep a residue
CoastingSegmentOnes(ts) == FullLike(ts, 1)

CoastingSegmentZeros(ts) == FullLike(ts, 0)

\* the time the phase started at
FirstSampleTime(sol) == sol.ts[1]

\* lines 340, 399: solution.t_events[0][0], the time of the terminal event
EventTime(sol) == sol.t_events[1]

\* lines 323-387: the water solve has returned; its segment is stored, and the
\* air phase is started if the water-depletion event fired
StoreWaterPhase(c) ==
    /\ frame[c].pc = "water"
    /\ frame[c].sol.status # "running"
    /\ LET f == frame[c]
           sw == f.sol
           rp == f.rocket_params
           initial_air_volume ==
               TimesOneMinusFraction(rp["V_bottle"], rp["water_fraction"])
           initial_air_mass ==
               calculate_air_mass_from_conditions(rp["P0"], INITIAL_TEMPERATURE,
                                                  initial_air_volume)
           stored == [f EXCEPT
               !.all_times = Append(@, sw.ts),
               !.all_altitudes = Append(@, Row(sw.ys, 1)),
               !.all_velocities = Append(@, Row(sw.ys, 2)),
               !.all_water_masses = Append(@, Row(sw.ys, 3)),
               !.all_liquid_gas_masses = Append(@, Row(sw.ys, 4)),
               !.statuses = Append(@, sw.status),
               !.nfevs = Append(@, sw.nfev)]
           withAir == [stored EXCEPT
               !.all_air_masses = Append(@, WaterSegmentAirMasses(sw.ts, initial_air_mass))]
           water_depletion_time == EventTime(sw)
           span == AirTimeSpan(water_depletion_time, f.max_time)
           sa == SolveIvpInit("air", span[1], span[2],
                              InitialStateAir(sw.ys[Len(sw.ys)], rp), f.time_step)
       IN  IF ~HasAirOperations(engine)
           THEN \* line 332: PhysicsEngine has no calculate_air_mass_from_conditions
                /\ frame' = [frame EXCEPT ![c] =
                       [stored EXCEPT !.pc = "raised", !.error = "AttributeError"]]
                /\ UNCHANGED derived_data
           ELSE IF sw.t_events # <<>> /\ TemperatureAtTransition(rp) = 0
           THEN \* lines 365-367: the air mass P V / (R T) at a temperature of 0
                /\ frame' = [frame EXCEPT ![c] =
                       [withAir EXCEPT !.pc = "raised", !.error = "ZeroDivisionError"]]
                /\ UNCHANGED derived_data
           ELSE IF sw.t_events # <<>>
           THEN /\ frame' = [frame EXCEPT ![c] =
                       [withAir EXCEPT !.pc = "air",
                                       !.water_depletion_time = water_depletion_time,
                                       !.sol = sa, !.entered = Append(@, "air")]]
                /\ derived_data' =
                       StoreDerivedQuantities(derived_data,
                                              InitSample(sa, engine, f.by, rp))
           ELSE /\ frame' = [frame EXCEPT ![c] = [withAir EXCEPT !.pc = "combine"]]
                /\ UNCHANGED derived_data
    /\ UNCHANGED <<engine, ncalls, earlier, call>>

\* lines 389-419: the air solve has returned; its segment is stored, and the
\* coasting phase is started if the air-depletion event fired
StoreAirPhase(c) ==
    /\ frame[c].pc = "air"
    /\ frame[c].sol.status # "running"
    /\ LET f == frame[c]
           sa == f.sol
           rp == f.rocket_params
           stored == [f EXCEPT
               !.all_times = Append(@, sa.ts),
               !.all_altitudes = Append(@, Row(sa.ys, 1)),
               !.all_velocities = Append(@, Row(sa.ys, 2)),
               !.all_water_masses = Append(@, AirSegmentZeros(sa.ts)),
               !.all_liquid_gas_masses = Append(@, AirSegmentZeros(sa.ts)),
               !.all_air_masses = Append(@, Row(sa.ys, 3)),
               !.statuses = Append(@, sa.status),
               !.nfevs = Append(@, sa.nfev)]
           air_depletion_time == EventTime(sa)
           final_state_air == sa.ys[Len(sa.ys)]
           span == CoastingTimeSpan(air_depletion_time, f.max_time)
           sc == SolveIvpInit("coasting", span[1], span[2],
                              <<final_state_air[1], final_state_air[2]>>, f.time_step)
       IN  IF sa.t_events # <<>>
           THEN /\ frame' = [frame EXCEPT ![c] =
                       [stored EXCEPT !.pc = "coasting",
                                      !.air_depletion_time = air_depletion_time,
                                      !.sol = sc, !.entered = Append(@, "coasting")]]
                /\ derived_data' =
                       StoreDerivedQuantities(derived_data,
                                              InitSample(sc, engine, f.by, rp))
           ELSE /\ frame' = [frame EXCEPT ![c] = [stored EXCEPT !.pc = "combine"]]
                /\ UNCHANGED derived_data
    /\ UNCHANGED <<engine, ncalls, earlier, call>>

\* lines 421-427: the coasting solve has returned; its segment is stored
StoreCoastingPhase(c) ==
    /\ frame[c].pc = "coasting"
    /\ frame[c].sol.status # "running"
    /\ LET f == frame[c]
           sc == f.sol
       IN  frame' = [frame EXCEPT ![c] = [f EXCEPT
               !.pc = "combine",
               !.all_times = Append(@, sc.ts),
               !.all_altitudes = Append(@, Row(sc.ys, 1)),
               !.all_velocities = Append(@, Row(sc.ys, 2)),
               !.all_water_masses = Append(@, CoastingSegmentZeros(sc.ts)),
               !.all_liquid_gas_masses = Append(@, CoastingSegmentZeros(sc.ts)),
               !.all_air_masses = Append(@, CoastingSegmentZeros(sc.ts)),
               !.statuses = Append(@, sc.status),
               !.nfevs = Append(@, sc.nfev)]]
    /\ UNCHANGED <<engine, derived_data, ncalls, earlier, call>>

\* lines 461-463: the scalar summaries
MaxAltitude(altitude) == SeqMax(altitude)

\* the velocity at the end of the flight
FinalVelocity(velocity) == velocity[Len(velocity)]

MaxVelocity(velocity) == SeqMax(velocity)

FlightTime(time) == time[Len(time)]

\* lines 438-443: a derived quantity resampled onto the trajectory's time grid
Resample(data, values, time) == InterpolateOnto(data.time, values, time)

\* the set of invocations that recorded the samples of a buffer
Recorders(data) == {data.by[i] : i \in 1..Len(data.by)}

\* lines 429-468: the segments are concatenated, the derived quantities
\* interpolated from the buffer, the acceleration differentiated, and the
\* FlightData returned.  interp1d raises ValueError on an empty buffer and
\* np.gradient on fewer than two time samples.
Combine(c) ==
    /\ frame[c].pc = "combine"
    /\ LET f == frame[c]
           time == Concat(f.all_times)
           altitude == Concat(f.all_altitudes)
           velocity == Concat(f.all_velocities)
           water_mass == Concat(f.all_water_masses)
           liquid_gas_mass == Concat(f.all_liquid_gas_masses)
           air_mass == Concat(f.all_air_masses)
           pressure == Resample(derived_data, derived_data.pressure, time)
           temperature == Resample(derived_data, derived_data.temperature, time)
           thrust == Resample(derived_data, derived_data.thrust, time)
           drag == Resample(derived_data, derived_data.drag, time)
           acceleration == Gradient(velocity, time)
       IN  IF Len(derived_data.time) = 0 \/ Len(time) < 2
           THEN frame' = [frame EXCEPT ![c].pc = "raised",
                                       ![c].error = "ValueError",
                                       ![c].sources = Recorders(derived_data)]
           ELSE frame' = [frame EXCEPT
                    ![c].pc = "returned",
                    ![c].sources = Recorders(derived_data),
                    ![c].flight_data =
                        FlightData(time, altitude, velocity, acceleration,
                                   water_mass, liquid_gas_mass, air_mass,
                                   pressure, temperature, thrust, drag,
                                   MaxAltitude(altitude), MaxVelocity(velocity),
                                   FlightTime(time), f.water_depletion_time,
                                   f.air_depletion_time)]
    /\ UNCHANGED <<engine, derived_data, ncalls, earlier, call>>

\* --- the engine's operations applied by the caller itself, on the engine of
\* a simulator it has constructed and not yet used
\* (simulator.physics_engine.calculate_thrust(...), ...)
EngineCall(op, args, result) == [op |-> op, args |-> args, result |-> result]

CanCallEngine(c) == frame[c].pc = "idle" /\ ncalls = 0 /\ call = NoCall

CallThrust(c) ==
    /\ CanCallEngine(c)
    /\ \E pressure \in 0..MaxPressure, nozzle_area \in 0..MaxCoefficient,
          discharge_coefficient \in 0..MaxCoefficient :
           call' = EngineCall("calculate_thrust",
                              <<pressure, nozzle_area, discharge_coefficient>>,
                              calculate_thrust(pressure, nozzle_area,
                                               discharge_coefficient))
    /\ UNCHANGED <<engine, derived_data, frame, ncalls, earlier>>

CallDrag(c) ==
    /\ CanCallEngine(c)
    /\ \E velocity \in (-MaxSpeed)..MaxSpeed, drag_coefficient \in 0..MaxCoefficient,
          cross_sectional_area \in 0..MaxCoefficient :
           call' = EngineCall("calculate_drag",
                              <<velocity, drag_coefficient, cross_sectional_area>>,
                              calculate_drag(engine, velocity, drag_coefficient,
                                             cross_sectional_area))
    /\ UNCHANGED <<engine, derived_data, frame, ncalls, earlier>>

CallNetForce(c) ==
    /\ CanCallEngine(c)
    /\ \E thrust \in 0..MaxForce, drag \in (-MaxForce)..MaxForce,
          mass \in (-MaxMass)..MaxMass :
           call' = EngineCall("calculate_net_force", <<thrust, drag, mass>>,
                              calculate_net_force(engine, thrust, drag, mass))
    /\ UNCHANGED <<engine, derived_data, frame, ncalls, earlier>>

\* --- a derivative function applied by the caller itself, on a simulator it
\* has constructed and not yet used (simulator._rocket_ode_air_phase(t, state,
\* params), ...): the states it is given, whatever a solver would reach
OdeStates(phase) ==
    LET Speeds == {-4 * MaxSpeed, 0, 4 * MaxSpeed}
    IN  CASE phase = "water" ->
               {<<0, v, wm, lg>> : v \in Speeds, wm \in {0, WATER_DENSITY}, lg \in {0, 5}}
          [] phase = "air" ->
               {<<0, v, am, INITIAL_TEMPERATURE>> :
                    v \in Speeds, am \in {-1, 0, 1, 2 * ATMOSPHERIC_PRESSURE}}
          [] OTHER -> {<<0, v>> : v \in Speeds}

OdeParams ==
    {RocketParams(1, P0, WATER_DENSITY) :
        P0 \in {ATMOSPHERIC_PRESSURE, 2 * ATMOSPHERIC_PRESSURE}}

\* lines 149, 156, 165: PhysicsEngine has no air_gas_constant and no
\* calculate_air_thrust; the air-phase function needs them when air_mass > 0
OdeRaises(phase, state) ==
    phase = "air" /\ ~HasAirOperations(engine) /\ state[3] > 0

CallOde(c) ==
    /\ CanCallEngine(c)
    /\ \E phase \in {"water", "air", "coasting"}, t \in 0..MaxTime :
         \E state \in OdeStates(phase), params \in OdeParams :
           LET r == OdeFunction(phase, engine, 0, t, state, params)
           IN  IF OdeRaises(phase, state)
               THEN /\ call' = EngineCall(phase, <<t, state, params>>,
                                          [raised |-> TRUE])
                    /\ UNCHANGED derived_data
               ELSE /\ call' = EngineCall(phase, <<t, state, params>>,
                                          [raised |-> FALSE, dy |-> r.dy,
                                           finite |-> r.finite, sample |-> r.sample])
                    /\ derived_data' = StoreDerivedQuantities(derived_data, r.sample)
    /\ UNCHANGED <<engine, frame, ncalls, earlier>>

\* ------------------------------------------------------- specifications
\* one caller: simulate invocations follow one another on the instance
Next ==
    \E c \in {1} :
        \/ CallThrust(c)
        \/ CallDrag(c)
        \/ CallNetForce(c)
        \/ CallOde(c)
        \/ Simulate(c)
        \/ SimulateOnFreshInstance(c)
        \/ SolverStep(c)
        \/ StoreWaterPhase(c)
        \/ StoreAirPhase(c)
        \/ StoreCoastingPhase(c)
        \/ Combine(c)

Spec == Init /\ [][Next]_vars

\* two threads call simulate on the one instance with no lock between them
\* (the class takes none): the steps of their invocations interleave.  The
\* inputs are a few of those above, among them a run through all three phases.
ConcurrentRocketInputs ==
    {RocketParams(1, 2 * ATMOSPHERIC_PRESSURE, WATER_DENSITY),
     RocketParams(0, ATMOSPHERIC_PRESSURE, 0)}

ConcurrentSimInputs == {NoSettings}

SimulateConcurrently(c) ==
    \E rocket_params \in ConcurrentRocketInputs, sim_params \in ConcurrentSimInputs :
        SimulateWith(c, rocket_params, sim_params)

NextConc ==
    \E c \in Callers :
        \/ SimulateConcurrently(c)
        \/ SolverStep(c)
        \/ StoreWaterPhase(c)
        \/ StoreAirPhase(c)
        \/ StoreCoastingPhase(c)
        \/ Combine(c)

SpecConc == Init /\ [][NextConc]_vars

\* ------------------------------------------------------------ the claims
Returned(c) == frame[c].pc = "returned"

Raised(c) == frame[c].pc = "raised"

\* simulate has left the phases behind: it is about to combine, or is over
PhasesOver(c) == frame[c].pc \in {"combine", "returned", "raised"}

\* the solve_ivp call of the i-th phase returned with its terminal event
EventFired(c, i) ==
    Len(frame[c].statuses) >= i /\ frame[c].statuses[i] = "event"

SolverFailed(c) ==
    \E i \in 1..Len(frame[c].statuses) : frame[c].statuses[i] = "failed"

IsPrefix(s, t) == Len(s) <= Len(t) /\ \A i \in 1..Len(s) : s[i] = t[i]

Last(s) == s[Len(s)]

\* C1: the phases are entered in the order water, air, coasting, each at most
\* once; once the phases are over, the air phase was entered exactly if the
\* water-depletion event fired and the coasting phase exactly if the
\* air-depletion event fired.
C1_PhasesFollowEvents ==
    LET f == frame[1]
    IN  /\ IsPrefix(f.entered, <<"water", "air", "coasting">>)
        /\ PhasesOver(1) =>
              /\ (Len(f.entered) >= 2) <=> EventFired(1, 1)
              /\ (Len(f.entered) >= 3) <=> EventFired(1, 2)

\* the call raised where the air mass at the transition is computed: a
\* division by a temperature of 0, reached from an initial air volume of 0
RaisedAtTransition(c) == frame[c].error = "ZeroDivisionError"

\* C1, on an instance whose engine provides the air-phase operations, for the
\* calls that did not raise at the transition
C1_PhasesFollowEventsWithAirOperations ==
    (HasAirOperations(engine) /\ ~RaisedAtTransition(1)) => C1_PhasesFollowEvents

\* C2: when the solve of the water or the air phase reaches max_time without
\* its depletion event, simulate raises nothing and returns a FlightData made
\* of the segments of the phases entered only, ending at max_time.
C2_NoEventEndsNormally ==
    LET f == frame[1]
        n == Len(f.statuses)
    IN  (PhasesOver(1) /\ n \in {1, 2} /\ f.statuses[n] = "finished") =>
            /\ ~Raised(1)
            /\ Len(f.entered) = n
            /\ Returned(1) =>
                  /\ Len(f.all_times) = n
                  /\ Len(f.flight_data.time) = Len(Concat(f.all_times))
                  /\ Last(f.flight_data.time) = f.max_time

\* C2, on an instance whose engine provides the air-phase operations
C2_NoEventEndsNormallyWithAirOperations ==
    HasAirOperations(engine) => C2_NoEventEndsNormally

\* C3: the flight_time of every returned FlightData is max_time.
C3_FlightTimeIsMaxTime ==
    Returned(1) => frame[1].flight_data.flight_time = frame[1].max_time

\* C3, for the runs in which no solve_ivp call failed
C3_FlightTimeIsMaxTimeUnlessSolverFailed ==
    (Returned(1) /\ ~SolverFailed(1)) =>
        frame[1].flight_data.flight_time = frame[1].max_time

\* C4: the eleven sequences of a returned FlightData have one length, and
\* within every segment the six per-phase arrays have the length of the
\* segment's time array, so that element i of each belongs to time[i].
C4_SequencesCoIndexed ==
    Returned(1) =>
        LET f == frame[1]
            d == f.flight_data
            n == Len(d.time)
        IN  /\ Len(d.altitude) = n /\ Len(d.velocity) = n
            /\ Len(d.acceleration) = n /\ Len(d.water_mass) = n
            /\ Len(d.liquid_gas_mass) = n /\ Len(d.air_mass) = n
            /\ Len(d.pressure) = n /\ Len(d.temperature) = n
            /\ Len(d.thrust) = n /\ Len(d.drag) = n
            /\ \A s \in 1..Len(f.all_times) :
                  /\ Len(f.all_altitudes[s]) = Len(f.all_times[s])
                  /\ Len(f.all_velocities[s]) = Len(f.all_times[s])
                  /\ Len(f.all_water_masses[s]) = Len(f.all_times[s])
                  /\ Len(f.all_liquid_gas_masses[s]) = Len(f.all_times[s])
                  /\ Len(f.all_air_masses[s]) = Len(f.all_times[s])

\* a FlightData of a run through all three phases, each of at least one step
C4_Witness ==
    /\ Returned(1)
    /\ Len(frame[1].all_times) = 3
    /\ Len(frame[1].flight_data.time) >= 7
    /\ Len(frame[1].flight_data.drag) = Len(frame[1].flight_data.time)

\* C5: the time of a returned FlightData is non-decreasing over the whole
\* grid, phase boundaries included, and has more than one element.
C5_TimeNonDecreasing ==
    Returned(1) =>
        LET time == frame[1].flight_data.time
        IN  /\ Len(time) > 1
            /\ \A i \in 1..(Len(time) - 1) : time[i] <= time[i + 1]

\* a FlightData whose time crosses two phase boundaries after time 0
C5_Witness ==
    /\ Returned(1)
    /\ Len(frame[1].all_times) = 3
    /\ frame[1].water_depletion_time > 0
    /\ frame[1].air_depletion_time > frame[1].water_depletion_time
    /\ Last(frame[1].flight_data.time) > frame[1].air_depletion_time

\* C6: no time instant is in two segments of a returned FlightData (a segment
\* starts after the one before it ended), and no acceleration sample comes
\* from a division by a zero time difference.
C6_NoRepeatedBoundaryTime ==
    Returned(1) =>
        LET f == frame[1]
        IN  /\ \A s \in 1..(Len(f.all_times) - 1) :
                  Last(f.all_times[s]) < f.all_times[s + 1][1]
            /\ \A i \in 1..Len(f.flight_data.acceleration) :
                  f.flight_data.acceleration[i].finite

\* C7: max_altitude is the greatest element of altitude, max_velocity the
\* greatest element of velocity, flight_time the last element of time.
C7_SummariesAreReductions ==
    Returned(1) =>
        LET d == frame[1].flight_data
        IN  /\ \A i \in 1..Len(d.altitude) : d.altitude[i] <= d.max_altitude
            /\ \E i \in 1..Len(d.altitude) : d.altitude[i] = d.max_altitude
            /\ \A i \in 1..Len(d.velocity) : d.velocity[i] <= d.max_velocity
            /\ \E i \in 1..Len(d.velocity) : d.velocity[i] = d.max_velocity
            /\ d.flight_time = d.time[Len(d.time)]

\* a FlightData of a rocket that rose above the ground and whose highest
\* velocity is reached inside the flight, not at its end
C7_Witness ==
    /\ Returned(1)
    /\ frame[1].flight_data.max_altitude > 0
    /\ frame[1].flight_data.max_velocity > Last(frame[1].flight_data.velocity)
    /\ frame[1].flight_data.flight_time = frame[1].max_time

\* C8: when a solve_ivp call fails, simulate returns no FlightData.
C8_SolverFailurePropagates == SolverFailed(1) => ~Returned(1)

\* C9: while an invocation runs and when it returns, every sample of the
\* buffer, and so every sample handed to the interpolation, was recorded by
\* that invocation.
C9_SamplesAreOfTheCurrentCall ==
    LET f == frame[1]
    IN  /\ f.pc \in {"water", "air", "coasting", "combine"} =>
              Recorders(derived_data) = {f.by}
        /\ Returned(1) => f.sources = {f.by}

\* a second invocation on the instance has returned, after a first one that
\* left its samples in the buffer
C9_Witness ==
    /\ Returned(1)
    /\ frame[1].by = 2
    /\ frame[1].sources = {2}
    /\ Len(frame[1].flight_data.pressure) >= 3

\* C10: whatever the interleaving of two invocations on the instance, the
\* samples handed to an invocation's interpolation were recorded by it, and
\* a sample an invocation recorded stays in the buffer until it interpolates.
C10_ConcurrentCallsDoNotShare ==
    \A c \in Callers :
        /\ (Returned(c) \/ Raised(c)) /\ frame[c].error # "AttributeError" =>
              frame[c].sources = {frame[c].by}
        /\ frame[c].pc \in {"water", "air", "coasting", "combine"} =>
              frame[c].by \in Recorders(derived_data)

\* simulate is over for the caller: it returned or raised
Over(c) == Returned(c) \/ Raised(c)

\* what the caller got: a FlightData, or an error, after which phases
Result(o) == [pc |-> o.pc, error |-> o.error, entered |-> o.entered,
              flight_data |-> o.flight_data]

C12_ZeroLiquidGasIsTheDefault ==
    (/\ earlier.present /\ Over(1)
     /\ frame[1].passed.sim_params = earlier.passed.sim_params
     /\ earlier.passed.rocket_params = WithLiquidGas(frame[1].passed.rocket_params, 0)) =>
        Result(Outcome(frame[1])) = Result(earlier)

\* both calls returned, the one with liquid_gas_mass = 0, the other without
\* the field, after a water phase that expelled water
C12_Witness ==
    /\ earlier.present
    /\ Returned(1)
    /\ earlier.pc = "returned"
    /\ "liquid_gas_mass" \notin DOMAIN frame[1].passed.rocket_params
    /\ earlier.passed.rocket_params = WithLiquidGas(frame[1].passed.rocket_params, 0)
    /\ frame[1].water_depletion_time > 0

\* C13: with water_fraction = 0 the water solve ends at t = 0 with its
\* depletion event, water_depletion_time is 0, the air phase is entered, and
\* no sample of the water segment lies after t = 0.
C13_NoWaterGoesStraightToAir ==
    LET f == frame[1]
    IN  (PhasesOver(1) /\ f.rocket_params["water_fraction"][1] = 0) =>
            /\ EventFired(1, 1)
            /\ f.water_depletion_time = 0
            /\ Len(f.entered) >= 2 /\ f.entered[2] = "air"
            /\ \A i \in 1..Len(f.all_times[1]) : f.all_times[1][i] = 0

\* C13, on an instance whose engine provides the air-phase operations, for a
\* rocket of positive empty mass
C13_NoWaterGoesStraightToAirWithAirOperations ==
    (HasAirOperations(engine) /\ PhasesOver(1) /\ frame[1].rocket_params["m_empty"] > 0)
        => C13_NoWaterGoesStraightToAir

\* C14: a call whose validation gave warnings ran the integration and
\* returned a FlightData.
C14_WarningsDoNotStopSimulate ==
    (Over(1) /\ frame[1].warnings # {}) =>
        /\ frame[1].statuses # <<>>
        /\ Returned(1)

\* C14, for the calls on an instance whose engine provides the air-phase
\* operations in which no solve_ivp call failed and the initial air volume
\* was not 0
C14_WarningsDoNotStopSimulateWithAirOperations ==
    (HasAirOperations(engine) /\ ~SolverFailed(1) /\ ~RaisedAtTransition(1)) =>
        C14_WarningsDoNotStopSimulate

\* C15: calculate_thrust returns three zeros for a pressure at or below the
\* atmosphere and a non-negative force and mass flow rate above it; every
\* thrust sample of the water phase is >= 0, and 0 where the pressure sample
\* is at or below the atmosphere.
C15_ThrustIsZeroAtOrBelowAtmosphere ==
    /\ call.op = "calculate_thrust" =>
          LET pressure == call.args[1]
              r == call.result
          IN  /\ pressure <= ATMOSPHERIC_PRESSURE =>
                    r.thrust = 0 /\ r.exit_velocity = 0 /\ r.mass_flow_rate = 0
              /\ pressure > ATMOSPHERIC_PRESSURE =>
                    r.thrust >= 0 /\ r.mass_flow_rate >= 0
    /\ frame[1].pc = "water" =>
          \A i \in 1..Len(derived_data.thrust) :
              /\ derived_data.thrust[i] >= 0
              /\ derived_data.pressure[i] <= ATMOSPHERIC_PRESSURE =>
                    derived_data.thrust[i] = 0

\* a water phase that recorded a positive thrust and then, with water left,
\* a pressure at or below the atmosphere
C15_Witness ==
    /\ frame[1].pc = "water"
    /\ frame[1].sol.y[3] > 0
    /\ \E i, j \in 1..Len(derived_data.thrust) :
          /\ i < j
          /\ derived_data.thrust[i] > 0
          /\ derived_data.pressure[j] <= ATMOSPHERIC_PRESSURE
          /\ derived_data.thrust[j] = 0

\* C16 as stated: for a non-negative drag coefficient and area the drag has
\* the sign of the velocity.
C16_DragHasTheSignOfVelocity ==
    call.op = "calculate_drag" => Sign(call.result) = Sign(call.args[1])

\* C16: the drag never has the sign opposite to the velocity's; it is 0 when
\* the velocity, the drag coefficient or the area is 0; for a positive
\* coefficient and area it has the sign of the velocity whenever its
\* magnitude is not rounded to 0; and the net force is thrust - drag.
C16_DragNeverPushesAlongTheMotion ==
    /\ call.op = "calculate_drag" =>
          LET velocity == call.args[1]
              drag_coefficient == call.args[2]
              cross_sectional_area == call.args[3]
              drag == call.result
          IN  /\ drag * velocity >= 0
              /\ (velocity = 0 \/ drag_coefficient = 0 \/ cross_sectional_area = 0)
                    => drag = 0
              /\ (/\ drag_coefficient > 0 /\ cross_sectional_area > 0
                  /\ engine.air_density * velocity * velocity * drag_coefficient
                       * cross_sectional_area >= AirDensityDen)
                    => Sign(drag) = Sign(velocity)
    /\ call.op = "calculate_net_force" =>
          call.result.net_force = call.args[1] - call.args[2]

\* the drag of a descending rocket: a negative force
C16_Witness ==
    /\ call.op = "calculate_drag"
    /\ call.args[1] < 0
    /\ call.result < 0

\* C17: every air volume the derivative functions divide by or take as the
\* adiabatic reference is > 0: the current air volume, the initial air volume
\* V_bottle * (1 - water_fraction), and the air-phase volume V_bottle.
C17_VolumesArePositive ==
    LET f == frame[1]
        rp == f.rocket_params
    IN  /\ f.pc = "water" =>
              /\ calculate_air_volume(rp["V_bottle"], f.sol.y[3]) > 0
              /\ TimesOneMinusFraction(rp["V_bottle"], rp["water_fraction"]) > 0
        /\ f.pc = "air" => rp["V_bottle"] > 0

\* C17, for the one volume that calculate_air_volume clamps and for V_bottle
C17_ClampedVolumesArePositive ==
    LET f == frame[1]
        rp == f.rocket_params
    IN  /\ f.pc = "water" => calculate_air_volume(rp["V_bottle"], f.sol.y[3]) > 0
        /\ f.pc = "air" => rp["V_bottle"] > 0

\* C18: calculate_net_force returns a finite acceleration, of the direction
\* of the net force before gravity, for a mass <= 0 too, and no derivative
\* function gets a non-finite acceleration from it.
C18_DegenerateMassIsFloored ==
    /\ (call.op = "calculate_net_force" /\ call.args[3] <= 0) =>
          /\ call.result.acceleration.finite
          /\ Sign(call.result.acceleration.value + engine.gravity)
               \in {0, Sign(call.result.net_force)}
    /\ ~SolverFailed(1)

\* C19: from the call on, the caller's rocket_params and sim_params are what
\* they were when the call was made.
C19_InputsAreReadOnly ==
    frame[1].pc # "idle" =>
        /\ frame[1].rocket_params = frame[1].passed.rocket_params
        /\ frame[1].sim_params = frame[1].passed.sim_params

\* a call that returned after it took time_step, solver and liquid_gas_mass
\* from the defaults
C19_Witness ==
    /\ Returned(1)
    /\ ~frame[1].passed.sim_params.is_none
    /\ "time_step" \notin DOMAIN frame[1].passed.sim_params.settings
    /\ "liquid_gas_mass" \notin DOMAIN frame[1].passed.rocket_params
    /\ frame[1].time_step = DEFAULT_TIME_STEP

\* C20: on a simulator built with the default PhysicsEngine every simulate
\* call returns a FlightData, and none ends with a missing-operation error.
C20_DefaultEngineReturnsFlightData ==
    (engine.kind = "default" /\ Over(1)) =>
        /\ frame[1].error # "AttributeError"
        /\ Returned(1)

\* the initial state and the first time of the solve_ivp call in progress
InitialState(c) == frame[c].sol.ys[1]

StartTime(c) == frame[c].sol.ts[1]

\* C21: while the air phase is integrated, its initial altitude and velocity
\* are those of the last water-phase sample and its span starts at the
\* water-depletion event's time, which is the time of that sample; while the
\* coasting phase is integrated, the same holds with the last air-phase sample
\* and the air-depletion event's time.
C21_PhasesContinue ==
    LET f == frame[1]
    IN  /\ f.pc = "air" =>
              /\ InitialState(1)[1] = Last(f.all_altitudes[1])
              /\ InitialState(1)[2] = Last(f.all_velocities[1])
              /\ StartTime(1) = f.water_depletion_time
              /\ StartTime(1) = Last(f.all_times[1])
        /\ f.pc = "coasting" =>
              /\ InitialState(1)[1] = Last(f.all_altitudes[2])
              /\ InitialState(1)[2] = Last(f.all_velocities[2])
              /\ StartTime(1) = f.air_depletion_time
              /\ StartTime(1) = Last(f.all_times[2])

\* a coasting phase in progress that started moving, after the launch, from an
\* air phase that itself started moving, after the launch
C21_Witness ==
    LET f == frame[1]
    IN  /\ f.pc = "coasting"
        /\ InitialState(1)[2] # 0 /\ StartTime(1) > 0
        /\ f.all_velocities[2][1] # 0 /\ f.all_times[2][1] > 0
        /\ f.all_times[2][1] < StartTime(1)

\* the air mass and the temperature of the adiabatic expansion of P0 from the
\* initial air volume V_bottle * (1 - water_fraction) to V_bottle
ExpandedToFullBottle(rocket_params) ==
    LET V == rocket_params["V_bottle"]
        P == calculate_pressure_adiabatic(rocket_params["P0"],
                 TimesOneMinusFraction(V, rocket_params["water_fraction"]), V)
        T == calculate_temperature_adiabatic(INITIAL_TEMPERATURE,
                                             rocket_params["P0"], P)
    IN  [air_mass |-> calculate_air_mass_from_conditions(P, T, V), temperature |-> T]

AirOdeCalledWithoutOverpressure ==
    /\ call.op = "air" /\ ~call.result.raised
    /\ \/ call.args[2][3] <= 0
       \/ IdealGasPressure(call.args[2][3], call.args[2][4],
                           call.args[3]["V_bottle"]) <= ATMOSPHERIC_PRESSURE

\* the derivative and the sample of a free fall under drag and gravity
FallsUnderDragAndGravity(r, state, params) ==
    LET drag == calculate_drag(engine, state[2], params["C_drag"], params["A_rocket"])
        acceleration ==
            calculate_net_force(engine, 0, drag, params["m_empty"] + state[3]).acceleration
    IN  /\ r.sample.thrust = 0
        /\ r.dy[3] = 0 /\ r.dy[4] = 0
        /\ r.dy[1] = state[2]
        /\ r.sample.drag = drag
        /\ r.finite = acceleration.finite
        /\ r.dy[2] = acceleration.value

\* C23: whenever the air-phase derivative function is evaluated at a pressure
\* not above the atmosphere, air_mass <= 0 included, the thrust and the
\* derivatives of air mass and temperature are 0, and both the acceleration
\* and the recorded sample carry the drag of the current velocity.
C23_NoOverpressureFallsUnderDrag ==
    AirOdeCalledWithoutOverpressure =>
        FallsUnderDragAndGravity(call.result, call.args[2], call.args[3])

\* C23, for the states with air left (air_mass > 0)
C23_NoOverpressureFallsUnderDragWithAirLeft ==
    (AirOdeCalledWithoutOverpressure /\ call.args[2][3] > 0) =>
        FallsUnderDragAndGravity(call.result, call.args[2], call.args[3])

\* the liquid gas a call starts with (line 302)
InitialLiquidGas(c) == Get(frame[c].passed.rocket_params, "liquid_gas_mass", 0)

\* the water solve in progress recorded its i-th sample at its i-th state:
\* every sample but the one of the step on which the event fired, which is
\* of the state at the end of that step
SampledAtState(sol, i) ==
    i <= Len(sol.ys) /\ ~(sol.status = "event" /\ i = Len(sol.ys))

\* C24: in the water-phase derivative function the pressure is the fixed
\* liquid-gas pressure, whatever P0 is, and the temperature the initial one
\* while water_mass > 0 and liquid_gas_mass > 0, and the derivative of
\* liquid_gas_mass is 0 at every evaluation; so every water-phase sample of a
\* run has the liquid_gas_mass the run started with, and a run that starts
\* with liquid gas records the fixed pressure at every state with water left.
C24_LiquidGasHoldsThePressure ==
    LET f == frame[1]
    IN  /\ (call.op = "water" /\ ~call.result.raised) =>
              /\ call.result.dy[4] = 0
              /\ (call.args[2][3] > 0 /\ call.args[2][4] > 0) =>
                    /\ call.result.sample.pressure = LiquidGasPressure
                    /\ call.result.sample.temperature = INITIAL_TEMPERATURE
        /\ f.pc = "water" =>
              /\ \A i \in 1..Len(f.sol.ys) : f.sol.ys[i][4] = InitialLiquidGas(1)
              /\ InitialLiquidGas(1) > 0 =>
                    \A i \in 1..Len(derived_data.time) :
                        (SampledAtState(f.sol, i) /\ f.sol.ys[i][3] > 0) =>
                            /\ derived_data.pressure[i] = LiquidGasPressure
                            /\ derived_data.temperature[i] = INITIAL_TEMPERATURE
        /\ Len(f.all_liquid_gas_masses) >= 1 =>
              \A i \in 1..Len(f.all_liquid_gas_masses[1]) :
                  f.all_liquid_gas_masses[1][i] = InitialLiquidGas(1)

\* a water solve that ended with its depletion event after a step that left
\* water and liquid gas, at a P0 other than the liquid-gas pressure
C24_Witness ==
    LET f == frame[1]
    IN  /\ f.pc = "water" /\ f.sol.status = "event"
        /\ InitialLiquidGas(1) > 0
        /\ f.rocket_params["P0"] # LiquidGasPressure
        /\ Len(f.sol.ys) >= 3 /\ f.sol.ys[2][3] > 0
        /\ derived_data.pressure[2] = LiquidGasPressure
        /\ Last(f.sol.ys)[4] = InitialLiquidGas(1)

RECURSIVE SeqSum(_)
SeqSum(s) == IF s = <<>> THEN 0 ELSE Head(s) + SeqSum(Tail(s))

\* the derivative evaluations made since the buffer was last reset: those of
\* the solve_ivp calls of the current simulate invocation, returned or in
\* progress, or the one the caller made itself
Evaluations(c) ==
    IF call.op \in {"water", "air", "coasting"}
    THEN IF call.result.raised THEN 0 ELSE 1
    ELSE SeqSum(frame[c].nfevs)
           + IF frame[c].pc \in {"water", "air", "coasting"} THEN frame[c].sol.nfev ELSE 0

\* C25: the five lists of the buffer have one length, the number of
\* derivative evaluations made since the buffer was last reset.
C25_OneSamplePerEvaluation ==
    LET n == Evaluations(1)
    IN  /\ Len(derived_data.time) = n /\ Len(derived_data.pressure) = n
        /\ Len(derived_data.temperature) = n /\ Len(derived_data.thrust) = n
        /\ Len(derived_data.drag) = n

\* the buffer after a run that evaluated all three derivative functions, with
\* thrust and without
C25_Witness ==
    /\ frame[1].entered = <<"water", "air", "coasting">>
    /\ frame[1].pc = "combine"
    /\ Evaluations(1) >= 6
    /\ \E i, j \in 1..Len(derived_data.time) :
           /\ derived_data.thrust[i] > 0
           /\ derived_data.thrust[j] = 0

\* the samples of the s-th segment of a combined array of the FlightData
SegmentOf(c, arr, s) ==
    LET before == Len(Concat(SubSeq(frame[c].all_times, 1, s - 1)))
    IN  SubSeq(arr, before + 1, before + Len(frame[c].all_times[s]))

\* the air mass of P0 at the initial temperature in the initial air volume
InitialAirMass(rocket_params) ==
    calculate_air_mass_from_conditions(rocket_params["P0"], INITIAL_TEMPERATURE,
        TimesOneMinusFraction(rocket_params["V_bottle"], rocket_params["water_fraction"]))

AllAre(s, v) == \A i \in 1..Len(s) : s[i] = v

\* C26: in a returned FlightData, water_mass and liquid_gas_mass are 0 at
\* every sample of the air and coasting segments; air_mass is the initial air
\* mass at every sample of the water segment, the air mass the solver
\* integrated in the air segment (starting from the transition's) and 0 at
\* every sample of the coasting segment.
C26_MassChannelsPerSegment ==
    Returned(1) =>
        LET f == frame[1]
            d == f.flight_data
            n == Len(f.all_times)
        IN  /\ AllAre(SegmentOf(1, d.air_mass, 1), InitialAirMass(f.rocket_params))
            /\ n >= 2 =>
                  /\ AllAre(SegmentOf(1, d.water_mass, 2), 0)
                  /\ AllAre(SegmentOf(1, d.liquid_gas_mass, 2), 0)
                  /\ SegmentOf(1, d.air_mass, 2) = f.all_air_masses[2]
                  /\ SegmentOf(1, d.air_mass, 2)[1]
                       = ExpandedToFullBottle(f.rocket_params).air_mass
            /\ n >= 3 =>
                  /\ AllAre(SegmentOf(1, d.water_mass, 3), 0)
                  /\ AllAre(SegmentOf(1, d.liquid_gas_mass, 3), 0)
                  /\ AllAre(SegmentOf(1, d.air_mass, 3), 0)

\* a FlightData of three segments whose water and liquid gas were not 0 in
\* the water segment and whose air mass changed in the air segment
C26_Witness ==
    LET f == frame[1]
        d == f.flight_data
    IN  /\ Returned(1) /\ Len(f.all_times) = 3
        /\ d.water_mass[1] > 0 /\ d.liquid_gas_mass[1] > 0
        /\ Last(SegmentOf(1, d.liquid_gas_mass, 1)) > 0
        /\ Last(SegmentOf(1, d.air_mass, 2)) # SegmentOf(1, d.air_mass, 2)[1]
        /\ Last(SegmentOf(1, d.air_mass, 2)) > 0

\* the water masses, the status and the evaluation count of the water solve,
\* in progress or returned
WaterMasses(c) ==
    IF frame[c].pc = "water" THEN Row(frame[c].sol.ys, 3)
    ELSE IF frame[c].all_water_masses # <<>> THEN frame[c].all_water_masses[1]
    ELSE <<>>

WaterStatus(c) ==
    IF frame[c].pc = "water" THEN frame[c].sol.status
    ELSE IF frame[c].statuses # <<>> THEN frame[c].statuses[1]
    ELSE "none"

WaterEvaluations(c) ==
    IF frame[c].pc = "water" THEN frame[c].sol.nfev
    ELSE IF frame[c].nfevs # <<>> THEN frame[c].nfevs[1]
    ELSE 0

\* the i-th water-phase sample was recorded at the i-th water-phase state,
\* with water left and a pressure not above the atmosphere
StalledAt(c, i) ==
    /\ i <= Len(WaterMasses(c)) /\ i <= WaterEvaluations(c)
    /\ ~(WaterStatus(c) = "event" /\ i = Len(WaterMasses(c)))
    /\ WaterMasses(c)[i] > 0
    /\ derived_data.pressure[i] <= ATMOSPHERIC_PRESSURE

\* from the i-th water-phase state on: no thrust, the water mass stays, the
\* depletion event does not fire, and the call ends by returning a FlightData
\* of the water segment alone that ends at max_time, both depletion times 0
EndsInWaterPhase(c, i) ==
    LET f == frame[c]
    IN  /\ \A j \in i..Len(WaterMasses(c)) : WaterMasses(c)[j] = WaterMasses(c)[i]
        /\ \A j \in i..WaterEvaluations(c) : derived_data.thrust[j] = 0
        /\ WaterStatus(c) # "event"
        /\ f.entered = <<"water">>
        /\ f.water_depletion_time = 0 /\ f.air_depletion_time = 0
        /\ ~Raised(c)
        /\ Returned(c) =>
              /\ Len(f.all_times) = 1
              /\ f.flight_data.time = f.all_times[1]
              /\ f.flight_data.flight_time = f.max_time
              /\ f.flight_data.water_depletion_time = 0
              /\ f.flight_data.air_depletion_time = 0

\* C27: once the water-phase pressure is at or below the atmosphere with
\* water left, thrust and mass flow are 0, the water mass stops decreasing,
\* the water-depletion event never fires, and the run ends in the water phase
\* at max_time with both depletion times 0 and no air or coasting segment.
C27_StalledWaterPhaseEndsTheRun ==
    \A i \in 1..Len(WaterMasses(1)) : StalledAt(1, i) => EndsInWaterPhase(1, i)

\* C27, on an instance whose engine provides the air-phase operations
C27_StalledWaterPhaseEndsTheRunWithAirOperations ==
    HasAirOperations(engine) => C27_StalledWaterPhaseEndsTheRun

\* the air phase was entered
AirEntered(c) == Len(frame[c].entered) >= 2

\* the ideal-gas pressure of the state the air phase is entered with
AirEntryPressure(c) ==
    LET e == ExpandedToFullBottle(frame[c].rocket_params)
    IN  IdealGasPressure(e.air_mass, e.temperature, frame[c].rocket_params["V_bottle"])

AirStatus(c) ==
    IF frame[c].pc = "air" THEN frame[c].sol.status
    ELSE IF Len(frame[c].statuses) >= 2 THEN frame[c].statuses[2]
    ELSE "none"

\* air mass and temperature stay what they were at the entry, the
\* air-depletion event does not fire, the coasting phase is not entered, and
\* the run ends in the air phase at max_time with air_depletion_time 0
StaysInAirPhase(c) ==
    LET f == frame[c]
    IN  /\ f.pc = "air" =>
              /\ \A i \in 1..Len(f.sol.ys) :
                     /\ f.sol.ys[i][3] = InitialState(c)[3]
                     /\ f.sol.ys[i][4] = InitialState(c)[4]
              /\ f.sol.t_events = <<>>
        /\ AirStatus(c) \in {"none", "running", "finished"}
        /\ Len(f.entered) = 2
        /\ f.air_depletion_time = 0
        /\ Len(f.all_times) >= 2 =>
              /\ AllAre(f.all_air_masses[2], f.all_air_masses[2][1])
              /\ Last(f.all_times[2]) = f.max_time
        /\ ~Raised(c)
        /\ Returned(c) =>
              /\ f.flight_data.air_depletion_time = 0
              /\ f.flight_data.flight_time = f.max_time

\* the air-depletion event fires where the air phase starts, and the coasting
\* phase is entered there
LeavesAirPhaseAtOnce(c) ==
    LET f == frame[c]
    IN  /\ (f.pc = "air" /\ f.sol.status # "running") =>
              /\ f.sol.status = "event"
              /\ f.sol.t_events = <<f.water_depletion_time>>
        /\ Len(f.all_times) >= 2 =>
              /\ Len(f.entered) = 3
              /\ f.air_depletion_time = f.water_depletion_time

\* C28: an air phase entered with an ideal-gas pressure at or below the
\* atmosphere keeps its air mass and temperature, its depletion event never
\* fires, the coasting phase is never entered, and the run ends in the air
\* phase at max_time with air_depletion_time = 0.
C28_LowPressureAirPhaseRunsOut ==
    (AirEntered(1) /\ AirEntryPressure(1) <= ATMOSPHERIC_PRESSURE) => StaysInAirPhase(1)

\* C28, amended: so it is for an entry pressure below the atmosphere; at
\* exactly the atmosphere the event function is 0 from the start, the event
\* fires at the start of the air phase and the coasting phase is entered
\* there, with air_depletion_time = water_depletion_time.
C28_AirPhaseBelowAtmosphereRunsOut ==
    /\ (AirEntered(1) /\ AirEntryPressure(1) < ATMOSPHERIC_PRESSURE) => StaysInAirPhase(1)
    /\ (AirEntered(1) /\ AirEntryPressure(1) = ATMOSPHERIC_PRESSURE) =>
           LeavesAirPhaseAtOnce(1)

\* a FlightData returned by a run whose water phase ran at the liquid-gas
\* pressure and whose air phase, entered after the launch below the
\* atmosphere, took steps up to max_time
C28_Witness ==
    LET f == frame[1]
    IN  /\ Returned(1) /\ AirEntered(1)
        /\ AirEntryPressure(1) < ATMOSPHERIC_PRESSURE
        /\ InitialLiquidGas(1) > 0
        /\ f.water_depletion_time > 0
        /\ Len(f.all_times[2]) >= 3
        /\ f.all_air_masses[2][1] > 0

\* C29: in a returned FlightData, water_depletion_time is the time of the
\* water-depletion event if it fired and 0 otherwise, air_depletion_time the
\* time of the air-depletion event if it fired and 0 otherwise; the air event
\* fires, and air_depletion_time is set, only in runs whose water event fired;
\* and when both fired, 0 <= water_depletion_time <= air_depletion_time <=
\* flight_time.
C29_DepletionTimesFollowEvents ==
    Returned(1) =>
        LET f == frame[1]
            d == f.flight_data
        IN  /\ d.water_depletion_time =
                   IF EventFired(1, 1) THEN Last(f.all_times[1]) ELSE 0
            /\ d.air_depletion_time =
                   IF EventFired(1, 2) THEN Last(f.all_times[2]) ELSE 0
            /\ EventFired(1, 2) => EventFired(1, 1)
            /\ d.air_depletion_time # 0 => EventFired(1, 1)
            /\ (EventFired(1, 1) /\ EventFired(1, 2)) =>
                  /\ 0 <= d.water_depletion_time
                  /\ d.water_depletion_time <= d.air_depletion_time
                  /\ d.air_depletion_time <= d.flight_time

\* a FlightData of a run in which the water ran out after the launch, the air
\* later and the flight went on after that
C29_Witness ==
    LET d == frame[1].flight_data
    IN  /\ Returned(1) /\ EventFired(1, 1) /\ EventFired(1, 2)
        /\ 0 < d.water_depletion_time
        /\ d.water_depletion_time < d.air_depletion_time
        /\ d.air_depletion_time < d.flight_time

====
